---- MODULE Spec2Model ----
(***************************************************************************)
(* Model of dispatch.plugins.dispatch_google.drive.drive: the call         *)
(* executor make_call (tenacity retry), the paginated decorator, the       *)
(* chunked upload and the composite drive operations.                      *)
(*                                                                         *)
(* One action is one execution of the function body at a call site: one    *)
(* remote invocation, the classification of its outcome and the decision   *)
(* of the enclosing tenacity loop (return, raise, or sleep and go again).  *)
(* The remote service is the environment: it picks the status, the error   *)
(* body and the response of every invocation.                              *)
(***************************************************************************)
EXTENDS Integers, Sequences, FiniteSets, TLC

VARIABLES
    op,                \* the module function the caller invoked
    pc,                \* position inside that function
    propagate_errors,  \* make_call's propagate_errors argument
    attempt,           \* tenacity attempt_number of the running make_call
    mc_out,            \* what the last make_call step did: none/retry/return/raise
    statuses,          \* statuses the remote reported to the running make_call
    waits,             \* sleeps tenacity took inside the running make_call
    orig,              \* the HttpError the remote raised in the last invocation
    thrown,            \* the exception the last make_call raised (NoError if none)
    retval,            \* the value the last make_call returned (NoValue if none)
    calls,             \* the remote calls made so far, one entry per make_call
    invocations,       \* what the running make_call executed, one entry per attempt
    raised,            \* the exception that reached the caller of op (NoError if none)
    args,              \* keyword arguments the caller passed to the listing
    kwargs,            \* paginated: the kwargs dict handed to the wrapped function
    limit,             \* paginated: the limit popped from kwargs
    results,           \* paginated: the accumulated results
    requests,          \* calls of the wrapped function: its kwargs and len(results) then
    pages,             \* responses the wrapped function returned, in order
    pg_out,            \* what the last paginated step did: none/more/return/raise
    creates,           \* upload_file: create requests built (resumable sessions)
    sent,              \* chunks the remote accepted in the current session
    nchunks,           \* chunks the uploaded file consists of
    members,           \* create_team_drive: the members argument
    request_ids,       \* create_team_drive: the requestIds generated so far
    ctd_attempt,       \* create_team_drive: tenacity attempt_number of the function
    drive_data,        \* create_team_drive: the local drive_data (<<>> while unbound)
    granted,           \* create_team_drive: members whose add_permission returned
    folder,            \* archive_team_drive: the local folder (<<>> while unbound)
    files,             \* archive_team_drive: the files list_files returned
    dfiles,            \* delete_team_drive: the files list_files returned
    idx,               \* index of the running for loop
    parents,           \* move_file: the parents the get returned
    sleeps,            \* time.sleep calls made outside tenacity
    permissions,       \* remove_permission: the permissions the list returned
    source,            \* the non-folder files the source drive held at the start
    drive,             \* the non-folder files the source drive holds now
    moved,             \* the files of the source drive relocated so far
    total,             \* list_files: executions of the remote call so far
    history            \* whether the logs keep every entry or only the last one

mcvars == <<propagate_errors, attempt, mc_out, statuses, waits, orig, thrown, retval, calls, invocations>>

pgvars == <<args, kwargs, limit, results, requests, pages, pg_out>>

upvars == <<creates, sent, nchunks>>

cdvars == <<members, request_ids, ctd_attempt, drive_data, granted>>

arvars == <<folder, files, dfiles, idx, parents, sleeps>>

envvars == <<permissions, source, drive, moved, total, history>>

vars == <<op, pc, raised, mcvars, pgvars, upvars, cdvars, arvars, envvars>>

----------------------------------------------------------------------------
(* Values *)

\* no value: what a variable holds before a call returned one
NoValue == <<>>

NoError == [type |-> "NoError", status |-> 0, payload |-> <<>>]

\* statuses of the retry list of make_call
TransientStatuses == {300, 429, 500, 502, 503, 504}

SuccessStatuses == {200}

\* statuses the remote may report
Statuses == SuccessStatuses \cup TransientStatuses \cup {403, 404, 409}

\* JSON documents the remote sends as error bodies, and their wire form
ErrorPayloads == {"forbidden", "notFound"}

Encode(p) == <<"utf8-json", p>>

Contents == {Encode(p) : p \in ErrorPayloads}

\* json.loads(e.content.decode())
json_loads_decode(content) == content[2]

\* values a successful call returns in the stand-alone make_call
Responses == {[id |-> "r1"], [id |-> "r2"]}

\* googleapiclient.errors.HttpError(resp, content)
HttpError(st, content) == [type |-> "HttpError", status |-> st, payload |-> content]

Max(a, b) == IF a >= b THEN a ELSE b

Min(a, b) == IF a <= b THEN a ELSE b

RECURSIVE Pow2(_)
Pow2(n) == IF n <= 0 THEN 1 ELSE 2 * Pow2(n - 1)

\* a Python dict is a function on the set of its keys
EmptyDict == <<>>

\* no make_call has run yet
InitCall ==
    /\ attempt = 0
    /\ mc_out = "none"
    /\ statuses = <<>>
    /\ waits = <<>>
    /\ orig = NoError
    /\ thrown = NoError
    /\ retval = NoValue
    /\ calls = <<>>
    /\ invocations = <<>>
    /\ raised = NoError

\* no listing has run yet
InitPaginated ==
    /\ kwargs = EmptyDict
    /\ limit = 0
    /\ results = <<>>
    /\ requests = <<>>
    /\ pages = <<>>
    /\ pg_out = "none"

\* no upload has run yet
InitUpload ==
    /\ creates = 0
    /\ sent = 0
    /\ nchunks = 0

\* no create_team_drive has run yet
InitCreateDrive ==
    /\ members = <<>>
    /\ request_ids = <<>>
    /\ ctd_attempt = 0
    /\ drive_data = <<>>
    /\ granted = <<>>

\* no archive_team_drive or delete_team_drive has run yet
InitArchive ==
    /\ folder = <<>>
    /\ files = <<>>
    /\ dfiles = <<>>
    /\ idx = 0
    /\ parents = <<>>
    /\ sleeps = <<>>

\* no remote drive is tracked, nothing is counted, the logs keep every entry
InitExtra ==
    /\ permissions = <<>>
    /\ source = <<>>
    /\ drive = <<>>
    /\ moved = <<>>
    /\ total = 0
    /\ history = TRUE

InSeq(s, x) == \E i \in 1..Len(s) : s[i] = x

Remove(s, x) == SelectSeq(s, LAMBDA y : y # x)

\* a log takes one more entry
Log(log, e) == IF history THEN Append(log, e) ELSE <<e>>

----------------------------------------------------------------------------
(* make_call and its retry decorator *)

StopAfterAttempt == 5

WaitMultiplier == 1

WaitMin == 2

WaitMax == 5

\* tenacity.stop_after_attempt(5)
stop_after_attempt_off(n) == n > StopAfterAttempt

stop_after_attempt(n) == n >= StopAfterAttempt

\* tenacity.wait_exponential(multiplier, min, max) after attempt n
wait_exponential(n, multiplier, min, max) ==
    Max(Max(0, min), Min(multiplier * Pow2(n - 1), max))

\* the status test of make_call's except branch
is_transient_all(st) == st \notin SuccessStatuses

is_transient(st) == st \in TransientStatuses

\* one execution of the body of make_call
make_call_body(st, content, response, pe) ==
    IF st \in SuccessStatuses
    THEN [kind |-> "return", value |-> response, exc |-> NoError]
    ELSE IF is_transient(st)
    THEN [kind |-> "raise", value |-> NoValue,
          exc |-> [type |-> "TryAgain", status |-> 0, payload |-> <<>>]]
    ELSE IF pe
    \* "raise HttpError" instantiates the class without resp and content
    THEN [kind |-> "raise", value |-> NoValue,
          exc |-> [type |-> "TypeError", status |-> 0, payload |-> <<>>]]
    ELSE [kind |-> "raise", value |-> NoValue,
          exc |-> [type |-> "Exception", status |-> 0,
                   payload |-> <<"Request failed. Errors: ", json_loads_decode(content)>>]]

\* tenacity keeps attempt_number in the state of one call of the decorated
\* function: a call that is not the continuation of a retry starts at 1
attempt_number_shared(fresh, prev) == prev + 1

attempt_number(fresh, prev) == IF fresh THEN 1 ELSE prev + 1

\* line 86: what one attempt executes, getattr(client, func)(**kwargs)
invocation_first_only(call, n) == IF n = 1 THEN call ELSE [api |-> "other"]

invocation(call, n) == call

\* one iteration of the tenacity loop around make_call: a call that is not
\* the continuation of a retry starts with fresh retry state
MakeCallStep(call, st, content, response, pe) ==
    LET fresh == mc_out # "retry"
        n     == attempt_number(fresh, attempt)
        r     == make_call_body(st, content, response, pe)
        w     == IF fresh THEN <<>> ELSE waits
        inv   == [call |-> invocation(call, n), status |-> st,
                  result |-> IF st \in SuccessStatuses THEN <<response>> ELSE <<>>]
    IN  /\ attempt' = n
        /\ calls' = (IF fresh THEN Log(calls, call) ELSE calls)
        /\ invocations' = (IF fresh THEN <<inv>> ELSE Append(invocations, inv))
        /\ statuses' = (IF fresh THEN <<st>> ELSE Append(statuses, st))
        /\ orig' = (IF st \in SuccessStatuses THEN NoError ELSE HttpError(st, content))
        /\ propagate_errors' = pe
        /\ IF r.kind = "return"
           THEN /\ mc_out' = "return"
                /\ retval' = r.value
                /\ thrown' = NoError
                /\ waits' = w
           ELSE IF r.exc.type = "TryAgain"
           THEN IF stop_after_attempt(n)
                THEN /\ mc_out' = "raise"
                     /\ retval' = NoValue
                     /\ thrown' = [type |-> "RetryError", status |-> 0, payload |-> <<>>]
                     /\ waits' = w
                ELSE /\ mc_out' = "retry"
                     /\ retval' = NoValue
                     /\ thrown' = NoError
                     /\ waits' = Append(w, wait_exponential(n, WaitMultiplier, WaitMin, WaitMax))
           ELSE /\ mc_out' = "raise"
                /\ retval' = NoValue
                /\ thrown' = r.exc
                /\ waits' = w

\* where the caller of a make_call goes after one step of it
AfterCall(here, next) ==
    IF mc_out' = "retry" THEN here
    ELSE IF mc_out' = "return" THEN next
    ELSE "raised"

----------------------------------------------------------------------------
(* The paginated decorator *)

Has(d, k) == k \in DOMAIN d

Update(d, k, v) == (k :> v) @@ d

Pop(d, k) == [x \in DOMAIN d \ {k} |-> d[x]]

\* a string is a sequence of characters; a field name counts as one character
RECURSIVE SplitAcc(_, _, _)
SplitAcc(s, cur, acc) ==
    IF s = <<>> THEN Append(acc, cur)
    ELSE IF Head(s) = "," THEN SplitAcc(Tail(s), <<>>, Append(acc, cur))
    ELSE SplitAcc(Tail(s), Append(cur, Head(s)), acc)

\* s.split(",")
Split(s) == SplitAcc(s, <<>>, <<>>)

\* ",".join(parts)
RECURSIVE Join(_)
Join(parts) ==
    IF parts = <<>> THEN <<>>
    ELSE IF Len(parts) = 1 THEN parts[1]
    ELSE parts[1] \o <<",">> \o Join(Tail(parts))

Contains(parts, x) == \E i \in 1..Len(parts) : parts[i] = x

\* lines 51-56: add nextPageToken to a non-empty fields mask that lacks it
inject_fields_always(kw) ==
    IF Has(kw, "fields") /\ kw["fields"] # <<>>
    THEN Update(kw, "fields", Join(Append(Split(kw["fields"]), <<"nextPageToken">>)))
    ELSE kw

inject_fields(kw) ==
    IF Has(kw, "fields") /\ kw["fields"] # <<>>
    THEN LET fields == Split(kw["fields"])
         IN  Update(kw, "fields",
                    Join(IF ~Contains(fields, <<"nextPageToken">>)
                         THEN Append(fields, <<"nextPageToken">>)
                         ELSE fields))
    ELSE kw

DefaultLimit == 250

\* the list method the wrapped function hands to make_call
a_api(a) == IF Has(a, "api") THEN a["api"] ELSE "teamdrives.list"

\* int(kwargs.pop("limit", 250))
pop_limit(kw) == IF Has(kw, "limit") THEN kw["limit"] ELSE DefaultLimit

\* results += response.get(data_key)
accumulate_front(res, page) == page \o res

accumulate(res, page) == res \o page

\* "not next_token": the token is absent (None) or the empty string
no_token_absent_only(response) == ~Has(response, "nextPageToken")

no_token(response) ==
    ~Has(response, "nextPageToken") \/ response["nextPageToken"] = ""

\* len(results) > limit
exceeds_limit_late(n, lim) == n > lim + 1

exceeds_limit(n, lim) == n > lim

\* One step of decorated_function around a wrapped function that is a single
\* make_call: a step that does not continue a listing starts one (lines
\* 47-48), a step that does not continue a retry is a new iteration of the
\* while loop (lines 50-58).
PaginatedStep(a, st, content, response) ==
    LET start == pg_out # "more"
        kw0   == IF start THEN Pop(Pop(a, "limit"), "api") ELSE kwargs
        lim   == IF start THEN pop_limit(a) ELSE limit
        res0  == IF start THEN <<>> ELSE results
        req0  == IF start THEN <<>> ELSE requests
        pgs0  == IF start THEN <<>> ELSE pages
        fresh == start \/ mc_out # "retry"
        kw1   == IF fresh THEN inject_fields(kw0) ELSE kw0
    IN  /\ limit' = lim
        /\ requests' = (IF fresh
                        THEN Log(req0, [kwargs |-> kw1, have |-> Len(res0)])
                        ELSE req0)
        /\ MakeCallStep([api |-> a_api(a), kwargs |-> kw1], st, content, response, FALSE)
        /\ IF mc_out' = "return"
           THEN LET res == accumulate(res0, response["files"])
                IN  /\ results' = res
                    /\ pages' = Log(pgs0, response)
                    /\ IF no_token(response)
                       THEN /\ kwargs' = kw1
                            /\ pg_out' = "return"
                       ELSE /\ kwargs' = Update(kw1, "pageToken", response["nextPageToken"])
                            /\ pg_out' = (IF exceeds_limit(Len(res), lim)
                                          THEN "return" ELSE "more")
           ELSE /\ results' = res0
                /\ pages' = pgs0
                /\ kwargs' = kw1
                /\ pg_out' = (IF mc_out' = "retry" THEN "more" ELSE "raise")

\* where the caller of a listing goes after one step of it
AfterListing(here, next) ==
    IF pg_out' = "more" THEN here
    ELSE IF pg_out' = "return" THEN next
    ELSE "raised"

\* the remote: how many pages it serves at most, how long its pages are, the
\* continuation tokens it hands out and the statuses it answers a list with
MaxPages == 3

PageSizes == {0, 1, 100}

Tokens == {"", "t1", "t2"}

ListStatuses == {200, 503, 403}

\* the k-th page of the remote, n records long
Records(k, n) == [i \in 1..n |-> 100 * (k - 1) + i]

ListResponses(k, sizes, tokens) ==
    LET fs == {Records(k, n) : n \in sizes}
    IN  {("files" :> f) : f \in fs}
        \cup {("files" :> f) @@ ("nextPageToken" :> t) : f \in fs, t \in tokens}

\* the remote serves a listing at most max pages
CanList(max) == pg_out # "more" \/ Len(pages) < max

\* the number of the page the next list call fetches
NextPage == IF pg_out = "more" THEN Len(pages) + 1 ELSE 1

\* what callers pass: a fields mask, a pageToken of their own, a limit
Masks == { <<>>,
           <<"id">>,
           <<"id", ",", "name">>,
           <<"nextPageToken", ",", "id">>,
           <<"id", ",", " ", "nextPageToken">>,
           <<"files(", "id", ",", "name", ")">> }

Limits == {-1, 0, 2}

Opt(k, S) == {EmptyDict} \cup {(k :> v) : v \in S}

ListArgs ==
    {f @@ t @@ l : f \in Opt("fields", Masks),
                   t \in Opt("pageToken", {"c0"}),
                   l \in Opt("limit", Limits)}

----------------------------------------------------------------------------
(* The caller invokes a paginated listing (list_team_drives) *)

InitListing ==
    /\ op = "list_team_drives"
    /\ pc = "list"
    /\ args \in ListArgs
    /\ propagate_errors = FALSE
    /\ InitCall
    /\ InitPaginated
    /\ InitUpload
    /\ InitCreateDrive
    /\ InitArchive
    /\ InitExtra

ListTeamDrives ==
    /\ op = "list_team_drives"
    /\ pc = "list"
    /\ CanList(MaxPages)
    /\ \E st \in ListStatuses, content \in {Encode("forbidden")},
          response \in ListResponses(NextPage, PageSizes, Tokens) :
          PaginatedStep(args, st, content, response)
    /\ pc' = AfterListing("list", "returned")
    /\ raised' = thrown'
    /\ UNCHANGED <<op, args, upvars, cdvars, arvars, envvars>>

NextListing == ListTeamDrives

SpecListing == InitListing /\ [][NextListing]_vars

----------------------------------------------------------------------------
(* upload_chunk and upload_file *)

PyNone == <<"None">>

TypeError == [type |-> "TypeError", status |-> 0, payload |-> <<>>]

TryAgain == [type |-> "TryAgain", status |-> 0, payload |-> <<>>]

UploadWaitMultiplier == 1

UploadWaitMax == 10

\* the statuses upload_chunk re-raises (and tenacity then retries)
ChunkRetryStatuses == {500, 502, 503, 504}

\* statuses the remote may answer a chunk with
ChunkStatuses == SuccessStatuses \cup ChunkRetryStatuses \cup {403, 404}

\* the remote answers at most this many times with a 5xx to one chunk, and
\* files have at most this many chunks
MaxChunkAttempts == 5

MaxChunks == 2

\* request.next_chunk() on success: (progress, None) until the last chunk,
\* (progress, response) at the last one
next_chunk(last, response) ==
    IF last THEN <<"tuple", "progress", <<response>>>>
    ELSE <<"tuple", "progress", PyNone>>

\* one execution of the body of upload_chunk: an HttpError outside
\* 500/502/503/504 leaves the except branch without a raise
upload_chunk_body_no504(st, content, last, response) ==
    IF st \in SuccessStatuses
    THEN [kind |-> "return", value |-> next_chunk(last, response), exc |-> NoError]
    ELSE IF st \in ChunkRetryStatuses \ {504}
    THEN [kind |-> "raise", value |-> PyNone, exc |-> HttpError(st, content)]
    ELSE [kind |-> "return", value |-> PyNone, exc |-> NoError]

upload_chunk_body(st, content, last, response) ==
    IF st \in SuccessStatuses
    THEN [kind |-> "return", value |-> next_chunk(last, response), exc |-> NoError]
    ELSE IF st \in ChunkRetryStatuses
    THEN [kind |-> "raise", value |-> PyNone, exc |-> HttpError(st, content)]
    ELSE [kind |-> "return", value |-> PyNone, exc |-> NoError]

\* one iteration of the tenacity loop around upload_chunk: no stop
\* condition, every exception is retried after wait_exponential(1, max=10)
UploadChunkStep(st, content, last, response) ==
    LET fresh == mc_out # "retry"
        n     == IF fresh THEN 1 ELSE attempt + 1
        r     == upload_chunk_body(st, content, last, response)
        w     == IF fresh THEN <<>> ELSE waits
    IN  /\ attempt' = n
        /\ calls' = (IF fresh THEN Log(calls, [api |-> "next_chunk"]) ELSE calls)
        /\ invocations' = invocations
        /\ statuses' = (IF fresh THEN <<st>> ELSE Append(statuses, st))
        /\ orig' = (IF st \in SuccessStatuses THEN NoError ELSE HttpError(st, content))
        /\ retval' = r.value
        /\ thrown' = NoError
        /\ IF r.kind = "return"
           THEN /\ mc_out' = "return"
                /\ waits' = w
           ELSE /\ mc_out' = "retry"
                /\ waits' = Append(w, wait_exponential(n, UploadWaitMultiplier, 0, UploadWaitMax))

\* lines 123-130: what upload_file does with an exception that leaves its
\* try block; upload_file itself has no retry decorator
upload_file_except(exc) ==
    IF exc.type = "HttpError"
    THEN IF exc.status \in {404}
         THEN TryAgain
         ELSE [type |-> "Exception", status |-> 0, payload |-> <<"Failed to upload file">>]
    ELSE exc

InitUploadOps ==
    /\ op \in {"upload_file", "upload_chunk"}
    /\ pc = (IF op = "upload_file" THEN "create" ELSE "chunk")
    /\ nchunks \in 1..MaxChunks
    /\ creates = 0
    /\ sent = 0
    /\ propagate_errors = FALSE
    /\ args = EmptyDict
    /\ InitCall
    /\ InitPaginated
    /\ InitCreateDrive
    /\ InitArchive
    /\ InitExtra

\* the caller invokes upload_chunk on a resumable request
UploadChunk ==
    /\ op = "upload_chunk"
    /\ pc = "chunk"
    /\ mc_out = "retry" => attempt < MaxChunkAttempts
    /\ \E st \in ChunkStatuses, content \in Contents :
          UploadChunkStep(st, content, sent + 1 = nchunks, "uploaded")
    /\ pc' = (IF mc_out' = "retry" THEN "chunk" ELSE "returned")
    /\ sent' = (IF mc_out' = "return" /\ retval' # PyNone THEN sent + 1 ELSE sent)
    /\ raised' = NoError
    /\ UNCHANGED <<op, propagate_errors, pgvars, creates, nchunks, cdvars, arvars, envvars>>

\* upload_file, lines 114-118: build the media and the create request
UploadFileCreate ==
    /\ op = "upload_file"
    /\ pc = "create"
    /\ creates' = creates + 1
    /\ sent' = 0
    /\ pc' = "chunk"
    /\ UNCHANGED <<op, raised, mcvars, pgvars, nchunks, cdvars, arvars, envvars>>

\* upload_file, lines 120-130: one upload_chunk attempt inside the while
\* loop, the unpacking of its result and the except clause
UploadFileChunk ==
    /\ op = "upload_file"
    /\ pc = "chunk"
    /\ mc_out = "retry" => attempt < MaxChunkAttempts
    /\ \E st \in ChunkStatuses, content \in Contents :
          UploadChunkStep(st, content, sent + 1 = nchunks, "uploaded")
    /\ IF mc_out' = "retry"
       THEN /\ pc' = "chunk"
            /\ sent' = sent
            /\ raised' = NoError
       ELSE IF retval' = PyNone
       \* "_, response = None" raises TypeError inside the try block
       THEN /\ pc' = "raised"
            /\ sent' = sent
            /\ raised' = upload_file_except(TypeError)
       ELSE /\ pc' = (IF retval'[3] # PyNone THEN "returned" ELSE "chunk")
            /\ sent' = sent + 1
            /\ raised' = NoError
    /\ UNCHANGED <<op, propagate_errors, pgvars, creates, nchunks, cdvars, arvars, envvars>>

NextUpload == UploadChunk \/ UploadFileCreate \/ UploadFileChunk

SpecUpload == InitUploadOps /\ [][NextUpload]_vars

----------------------------------------------------------------------------
(* add_permission and create_team_drive *)

UnboundLocalError == [type |-> "UnboundLocalError", status |-> 0, payload |-> <<>>]

\* statuses the remote may answer drives.create and permissions.create with
CreateStatuses == {200, 503, 409, 403}

PermStatuses == {200, 503, 403}

\* the members lists callers pass
MaxMembers == 2

Emails == {"a@x", "b@x"}

MemberLists == UNION {[1..n -> Emails] : n \in 0..MaxMembers}

\* uuid.uuid4(): an identifier no earlier call of the function got
uuid4(ids) == Len(ids) + 1

\* lines 186-188: what the except clause of create_team_drive does with an
\* exception of make_call: TryAgain on an HttpError 409, nothing on another
\* HttpError (the body goes on with drive_data unbound), no match otherwise
create_team_drive_except(exc) ==
    IF exc.type = "HttpError"
    THEN IF exc.status \in {409} THEN TryAgain ELSE UnboundLocalError
    ELSE exc

\* retry=retry_if_exception_type(TryAgain), stop=stop_after_attempt(5)
create_team_drive_retries_any(exc, n) == exc.type # "NoError" /\ ~stop_after_attempt(n)

create_team_drive_retries(exc, n) == exc.type = "TryAgain" /\ ~stop_after_attempt(n)

\* add_permission(client, email, team_drive_or_file_id, role, user_type)
add_permission_call(email, id, role, user_type) ==
    [api |-> "permissions.create", fileId |-> id,
     body |-> [type |-> user_type, role |-> role, emailAddress |-> email],
     sendNotificationEmail |-> FALSE, fields |-> <<"id">>, supportsTeamDrives |-> TRUE]

InitCreateTeamDrive ==
    /\ op = "create_team_drive"
    /\ pc = "create"
    /\ members \in MemberLists
    /\ request_ids = <<>>
    /\ ctd_attempt = 1
    /\ drive_data = <<>>
    /\ granted = <<>>
    /\ propagate_errors = FALSE
    /\ args = EmptyDict
    /\ InitCall
    /\ InitPaginated
    /\ InitUpload
    /\ InitArchive
    /\ InitExtra

\* lines 182-188: one make_call attempt of the drive creation; a new
\* execution of the function body generates a new request_id
CreateTeamDriveCreate ==
    /\ op = "create_team_drive"
    /\ pc = "create"
    /\ LET fresh == mc_out # "retry"
           ids   == IF fresh THEN Append(request_ids, uuid4(request_ids)) ELSE request_ids
       IN  /\ request_ids' = ids
           /\ \E st \in CreateStatuses, content \in Contents :
                 MakeCallStep([api |-> "drives.create", body |-> [name |-> "name"],
                               requestId |-> ids[Len(ids)]],
                              st, content, [id |-> "drive"], FALSE)
    /\ IF mc_out' = "retry"
       THEN /\ pc' = "create"
            /\ UNCHANGED <<raised, ctd_attempt, drive_data>>
       ELSE IF mc_out' = "return"
       THEN /\ pc' = (IF members = <<>> THEN "returned" ELSE "grant")
            /\ drive_data' = <<retval'>>
            /\ UNCHANGED <<raised, ctd_attempt>>
       ELSE LET exc == create_team_drive_except(thrown')
            IN  IF create_team_drive_retries(exc, ctd_attempt)
                THEN /\ pc' = "create"
                     /\ ctd_attempt' = ctd_attempt + 1
                     /\ UNCHANGED <<raised, drive_data>>
                ELSE /\ pc' = "raised"
                     /\ raised' = (IF exc.type = "TryAgain"
                                   THEN [type |-> "RetryError", status |-> 0, payload |-> <<>>]
                                   ELSE exc)
                     /\ UNCHANGED <<ctd_attempt, drive_data>>
    /\ UNCHANGED <<op, members, granted, pgvars, upvars, arvars, envvars>>

\* lines 190-193: one make_call attempt of add_permission for the next
\* member; an exception leaves the function through its retry decorator,
\* which starts the body again only on TryAgain
CreateTeamDriveGrant ==
    /\ op = "create_team_drive"
    /\ pc = "grant"
    /\ LET member == members[Len(granted) + 1]
       IN  /\ \E st \in PermStatuses, content \in Contents :
                 MakeCallStep(add_permission_call(member, drive_data[1]["id"], "owner", "user"),
                              st, content, [id |-> "perm"], FALSE)
           /\ granted' = (IF mc_out' = "return" THEN Append(granted, member) ELSE granted)
    /\ IF mc_out' = "raise" /\ create_team_drive_retries(thrown', ctd_attempt)
       THEN /\ pc' = "create"
            /\ ctd_attempt' = ctd_attempt + 1
            /\ drive_data' = <<>>
            /\ raised' = NoError
       ELSE /\ pc' = (IF mc_out' = "retry" THEN "grant"
                      ELSE IF mc_out' = "return"
                      THEN (IF Len(granted') = Len(members) THEN "returned" ELSE "grant")
                      ELSE "raised")
            /\ raised' = thrown'
            /\ UNCHANGED <<ctd_attempt, drive_data>>
    /\ UNCHANGED <<op, members, request_ids, pgvars, upvars, arvars, envvars>>

NextCreateTeamDrive == CreateTeamDriveCreate \/ CreateTeamDriveGrant

SpecCreateTeamDrive == InitCreateTeamDrive /\ [][NextCreateTeamDrive]_vars

----------------------------------------------------------------------------
(* archive_team_drive and the functions it calls *)

\* dispatch.plugins.dispatch_google.config.GOOGLE_DOMAIN
GOOGLE_DOMAIN == "example.com"

SettleDelay == 5

\* the remote serves a drive listing in at most this many pages
MaxArchivePages == 2

ArchivePageSizes == {0, 1, 2}

ArchiveTokens == {"t1"}

\* statuses the remote may answer the calls of a composite operation with
CallStatuses == {200, 503, 403}

\* what files.get(fields="parents") returns: the parents, or no such key
GetResponses == {("parents" :> << <<"A">>, <<"B">> >>), EmptyDict}

\* create_file(client, parent_id, name)
create_file_call(parent_id, name) ==
    [api |-> "files.create",
     body |-> [name |-> name, mimeType |-> "application/vnd.google-apps.folder",
               parents |-> <<parent_id>>],
     supportsTeamDrives |-> TRUE]

\* add_domain_permission(client, team_drive_or_file_id, domain)
add_domain_permission_call(id, domain) ==
    [api |-> "permissions.create", fileId |-> id,
     body |-> [type |-> "domain", role |-> "commenter", domain |-> domain],
     sendNotificationEmail |-> FALSE, fields |-> <<"id">>, supportsTeamDrives |-> TRUE]

\* move_file, line 386
move_file_get_call(file_id) ==
    [api |-> "files.get", fileId |-> file_id, fields |-> <<"parents">>,
     supportsTeamDrives |-> TRUE]

\* move_file, lines 388-398
move_file_update_call_first(team_drive_id, file_id, f) ==
    [api |-> "files.update", fileId |-> file_id, addParents |-> team_drive_id,
     removeParents |-> (IF f["parents"] = <<>> THEN <<>> ELSE f["parents"][1]),
     supportsTeamDrives |-> TRUE]

move_file_update_call(team_drive_id, file_id, f) ==
    [api |-> "files.update", fileId |-> file_id, addParents |-> team_drive_id,
     removeParents |-> Join(f["parents"]), supportsTeamDrives |-> TRUE]

\* delete_file(client, team_drive_id, file_id)
delete_file_call(file_id) ==
    [api |-> "files.delete", fileId |-> file_id, supportsTeamDrives |-> TRUE]

\* delete_team_drive, line 257
delete_team_drive_call(team_drive_id) ==
    [api |-> "teamdrives.delete", teamDriveId |-> team_drive_id]

\* archive_team_drive, lines 266-270: the kwargs of list_files
archive_list_args ==
    [api |-> "files.list", team_drive_id |-> "source", q |-> "not a folder"]

\* delete_team_drive, line 251: list_files gets the drive id positionally
delete_list_args == [api |-> "files.list"]

\* lines 272-276: after file number i of n is moved, the for loop goes on
\* with the next file, and delete_team_drive starts after the last one
archive_after_move_first(i, n) == "dlist"

archive_after_move(i, n) == IF i >= n THEN "dlist" ELSE "perm"

\* lines 254-257: after file number i of n is deleted, the for loop goes on
\* with the next file, and the drive is deleted after the last one
delete_after_file_first(i, n) == "ddrive"

delete_after_file(i, n) == IF i >= n THEN "ddrive" ELSE "dfile"

InitArchiveTeamDrive ==
    /\ op = "archive_team_drive"
    /\ pc = "create_folder"
    /\ propagate_errors = FALSE
    /\ args = archive_list_args
    /\ InitCall
    /\ InitPaginated
    /\ InitUpload
    /\ InitCreateDrive
    /\ InitArchive
    /\ InitExtra

\* line 264: one make_call attempt of create_file
ArchiveCreateFolder ==
    /\ op = "archive_team_drive"
    /\ pc = "create_folder"
    /\ \E st \in CallStatuses, content \in Contents :
          MakeCallStep(create_file_call("dest", "folder_name"), st, content,
                       [id |-> "folder"], FALSE)
    /\ pc' = AfterCall("create_folder", "list")
    /\ folder' = (IF mc_out' = "return" THEN <<retval'>> ELSE folder)
    /\ raised' = thrown'
    /\ UNCHANGED <<op, args, pgvars, upvars, cdvars, files, dfiles, idx, parents, sleeps, envvars>>

\* lines 266-270: one make_call attempt of list_files on the source drive
ArchiveListFiles ==
    /\ op = "archive_team_drive"
    /\ pc = "list"
    /\ CanList(MaxArchivePages)
    /\ \E st \in CallStatuses, content \in Contents,
          response \in ListResponses(NextPage, ArchivePageSizes, ArchiveTokens) :
          PaginatedStep(archive_list_args, st, content, response)
    /\ pc' = AfterListing("list", IF results' = <<>> THEN "dlist" ELSE "perm")
    /\ files' = (IF pg_out' = "return" THEN results' ELSE files)
    /\ idx' = (IF pg_out' = "return" THEN 1 ELSE idx)
    /\ raised' = thrown'
    /\ UNCHANGED <<op, args, upvars, cdvars, folder, dfiles, parents, sleeps, envvars>>

\* line 273: one make_call attempt of add_domain_permission
ArchiveAddDomainPermission ==
    /\ op = "archive_team_drive"
    /\ pc = "perm"
    /\ \E st \in CallStatuses, content \in Contents :
          MakeCallStep(add_domain_permission_call(files[idx], GOOGLE_DOMAIN), st, content,
                       [id |-> "perm"], FALSE)
    /\ pc' = AfterCall("perm", "get")
    /\ raised' = thrown'
    /\ UNCHANGED <<op, args, pgvars, upvars, cdvars, arvars, envvars>>

\* move_file, lines 386-388: one make_call attempt of the get; joining the
\* parents raises TypeError when the response has none
ArchiveMoveFileGet ==
    /\ op = "archive_team_drive"
    /\ pc = "get"
    /\ \E st \in CallStatuses, content \in Contents, response \in GetResponses :
          MakeCallStep(move_file_get_call(files[idx]), st, content, response, FALSE)
    /\ IF mc_out' = "return"
       THEN IF Has(retval', "parents")
            THEN /\ pc' = "update"
                 /\ parents' = retval'
                 /\ raised' = NoError
            ELSE /\ pc' = "raised"
                 /\ parents' = parents
                 /\ raised' = TypeError
       ELSE /\ pc' = AfterCall("get", "update")
            /\ parents' = parents
            /\ raised' = thrown'
    /\ UNCHANGED <<op, args, pgvars, upvars, cdvars, folder, files, dfiles, idx, sleeps, envvars>>

\* move_file, lines 390-398: one make_call attempt of the update
ArchiveMoveFileUpdate ==
    /\ op = "archive_team_drive"
    /\ pc = "update"
    /\ \E st \in CallStatuses, content \in Contents :
          MakeCallStep(move_file_update_call(folder[1]["id"], files[idx], parents),
                       st, content, [id |-> files[idx]], FALSE)
    /\ pc' = AfterCall("update", archive_after_move(idx, Len(files)))
    /\ idx' = (IF mc_out' = "return" THEN idx + 1 ELSE idx)
    \* the remote takes a file of the tracked source drive out of it
    /\ moved' = (IF mc_out' = "return" /\ InSeq(drive, files[idx])
                 THEN Append(moved, files[idx]) ELSE moved)
    /\ drive' = (IF mc_out' = "return" THEN Remove(drive, files[idx]) ELSE drive)
    /\ raised' = thrown'
    /\ UNCHANGED <<op, args, pgvars, upvars, cdvars, folder, files, dfiles, parents, sleeps,
                   permissions, source, total, history>>

\* delete_team_drive, lines 250-253: one make_call attempt of list_files,
\* then the settling sleep
DeleteTeamDriveList ==
    /\ op \in {"archive_team_drive", "delete_team_drive"}
    /\ pc = "dlist"
    /\ CanList(MaxArchivePages)
    /\ \E st \in CallStatuses, content \in Contents,
          response \in ListResponses(NextPage, ArchivePageSizes, ArchiveTokens) :
          PaginatedStep(delete_list_args, st, content, response)
    /\ pc' = AfterListing("dlist", IF results' = <<>> THEN "ddrive" ELSE "dfile")
    /\ dfiles' = (IF pg_out' = "return" THEN results' ELSE dfiles)
    /\ idx' = (IF pg_out' = "return" THEN 1 ELSE idx)
    /\ sleeps' = (IF pg_out' = "return" THEN Append(sleeps, SettleDelay) ELSE sleeps)
    /\ raised' = thrown'
    /\ UNCHANGED <<op, args, upvars, cdvars, folder, files, parents, envvars>>

\* delete_team_drive, lines 254-255: one make_call attempt of delete_file
DeleteTeamDriveFile ==
    /\ op \in {"archive_team_drive", "delete_team_drive"}
    /\ pc = "dfile"
    /\ \E st \in CallStatuses, content \in Contents :
          MakeCallStep(delete_file_call(dfiles[idx]), st, content, EmptyDict, FALSE)
    /\ pc' = AfterCall("dfile", delete_after_file(idx, Len(dfiles)))
    /\ idx' = (IF mc_out' = "return" THEN idx + 1 ELSE idx)
    \* the remote deletes the file, wherever it is
    /\ drive' = (IF mc_out' = "return" THEN Remove(drive, dfiles[idx]) ELSE drive)
    /\ moved' = (IF mc_out' = "return" THEN Remove(moved, dfiles[idx]) ELSE moved)
    /\ raised' = thrown'
    /\ UNCHANGED <<op, args, pgvars, upvars, cdvars, folder, files, dfiles, parents, sleeps,
                   permissions, source, total, history>>

\* delete_team_drive, line 257: one make_call attempt of the drive delete
DeleteTeamDriveDrive ==
    /\ op \in {"archive_team_drive", "delete_team_drive"}
    /\ pc = "ddrive"
    /\ \E st \in CallStatuses, content \in Contents :
          MakeCallStep(delete_team_drive_call("source"), st, content, EmptyDict, FALSE)
    /\ pc' = AfterCall("ddrive", "returned")
    /\ raised' = thrown'
    /\ UNCHANGED <<op, args, pgvars, upvars, cdvars, arvars, envvars>>

NextArchiveTeamDrive ==
    \/ ArchiveCreateFolder
    \/ ArchiveListFiles
    \/ ArchiveAddDomainPermission
    \/ ArchiveMoveFileGet
    \/ ArchiveMoveFileUpdate
    \/ DeleteTeamDriveList
    \/ DeleteTeamDriveFile
    \/ DeleteTeamDriveDrive

SpecArchiveTeamDrive == InitArchiveTeamDrive /\ [][NextArchiveTeamDrive]_vars

----------------------------------------------------------------------------
(* The caller invokes make_call directly *)

\* what the caller passes: the operation name func and the **kwargs
MakeCallArgs ==
    {[func |-> "get", kwargs |-> [fileId |-> "f1"]], [func |-> "list", kwargs |-> EmptyDict]}

InitMakeCall ==
    /\ op = "make_call"
    /\ pc = "call"
    /\ propagate_errors \in BOOLEAN
    /\ InitCall
    /\ InitPaginated
    /\ InitUpload
    /\ InitCreateDrive
    /\ InitArchive
    /\ InitExtra
    /\ args \in MakeCallArgs

MakeCall ==
    /\ op = "make_call"
    /\ pc = "call"
    /\ \E st \in Statuses, content \in Contents, response \in Responses :
          MakeCallStep([api |-> args["func"], kwargs |-> args["kwargs"]], st, content,
                       response, propagate_errors)
    /\ pc' = AfterCall("call", "returned")
    /\ raised' = thrown'
    /\ UNCHANGED <<op, pgvars, upvars, cdvars, arvars, envvars>>

NextMakeCall == MakeCall

SpecMakeCall == InitMakeCall /\ [][NextMakeCall]_vars

----------------------------------------------------------------------------
(* remove_permission *)

\* the remote returns at most this many permissions
MaxPermissions == 3

\* the email argument, and the addresses the listed permissions carry
TargetEmail == "a@x"

PermissionEmails == {"a@x", "b@x"}

\* permissions(id, emailAddress): the i-th entry of a list; a permission of
\* type domain or anyone has no emailAddress
Permission(i, email) ==
    IF email = <<>> THEN [id |-> i] ELSE [id |-> i, emailAddress |-> email[1]]

PermissionLists ==
    UNION { { [i \in 1..n |-> Permission(i, e[i])] :
                e \in [1..n -> {<<>>} \cup {<<m>> : m \in PermissionEmails}] } :
            n \in 0..MaxPermissions }

\* lines 365-371
list_permissions_call(team_drive_id) ==
    [api |-> "permissions.list", fileId |-> team_drive_id, supportsTeamDrives |-> TRUE,
     fields |-> <<"permissions(", "id", ",", " ", "emailAddress", ")">>]

\* lines 375-381
delete_permission_call(team_drive_id, p) ==
    [api |-> "permissions.delete", fileId |-> team_drive_id, permissionId |-> p["id"],
     supportsTeamDrives |-> TRUE]

KeyError == [type |-> "KeyError", status |-> 0, payload |-> <<>>]

\* lines 373-374: the for loop from entry i on, up to the next entry it
\* deletes, the entry whose p["emailAddress"] raises, or the end of the list
RECURSIVE scan(_, _, _)
scan(perms, i, email) ==
    IF i > Len(perms) THEN [kind |-> "done", idx |-> i]
    ELSE IF ~Has(perms[i], "emailAddress") THEN [kind |-> "KeyError", idx |-> i]
    ELSE IF perms[i]["emailAddress"] = email THEN [kind |-> "delete", idx |-> i]
    ELSE scan(perms, i + 1, email)

\* where remove_permission is after the scan stopped
AfterScan(s) ==
    IF s.kind = "delete" THEN "pdelete"
    ELSE IF s.kind = "done" THEN "returned"
    ELSE "raised"

InitRemovePermission ==
    /\ op = "remove_permission"
    /\ pc = "plist"
    /\ propagate_errors = FALSE
    /\ args = [email |-> TargetEmail, team_drive_id |-> "drive"]
    /\ InitCall
    /\ InitPaginated
    /\ InitUpload
    /\ InitCreateDrive
    /\ InitArchive
    /\ InitExtra

\* lines 365-374: one make_call attempt of the list, then the scan
RemovePermissionList ==
    /\ op = "remove_permission"
    /\ pc = "plist"
    /\ \E st \in CallStatuses, content \in Contents, ps \in PermissionLists :
          MakeCallStep(list_permissions_call(args["team_drive_id"]), st, content,
                       [permissions |-> ps], FALSE)
    /\ IF mc_out' = "return"
       THEN LET s == scan(retval'["permissions"], 1, args["email"])
            IN  /\ permissions' = retval'["permissions"]
                /\ idx' = s.idx
                /\ pc' = AfterScan(s)
                /\ raised' = (IF s.kind = "KeyError" THEN KeyError ELSE NoError)
       ELSE /\ permissions' = permissions
            /\ idx' = idx
            /\ pc' = AfterCall("plist", "returned")
            /\ raised' = thrown'
    /\ UNCHANGED <<op, args, pgvars, upvars, cdvars, folder, files, dfiles, parents, sleeps,
                   source, drive, moved, total, history>>

\* lines 375-381: one make_call attempt of the delete, then the scan goes on
RemovePermissionDelete ==
    /\ op = "remove_permission"
    /\ pc = "pdelete"
    /\ \E st \in CallStatuses, content \in Contents :
          MakeCallStep(delete_permission_call(args["team_drive_id"], permissions[idx]),
                       st, content, EmptyDict, FALSE)
    /\ IF mc_out' = "return"
       THEN LET s == scan(permissions, idx + 1, args["email"])
            IN  /\ idx' = s.idx
                /\ pc' = AfterScan(s)
                /\ raised' = (IF s.kind = "KeyError" THEN KeyError ELSE NoError)
       ELSE /\ idx' = idx
            /\ pc' = AfterCall("pdelete", "returned")
            /\ raised' = thrown'
    /\ UNCHANGED <<op, args, pgvars, upvars, cdvars, folder, files, dfiles, parents, sleeps,
                   permissions, source, drive, moved, total, history>>

NextRemovePermission == RemovePermissionList \/ RemovePermissionDelete

SpecRemovePermission == InitRemovePermission /\ [][NextRemovePermission]_vars

----------------------------------------------------------------------------
(* The caller invokes move_file *)

Destinations == {"C", "D"}

\* what files.get(fields="parents") returns for the moved file: the parents
\* in some order, or no such key
MoveGetResponses ==
    {("parents" :> ps) : ps \in { <<>>, << <<"A">> >>, << <<"A">>, <<"B">> >>,
                                  << <<"B">>, <<"A">> >> }}
    \cup {EmptyDict}

InitMoveFile ==
    /\ op = "move_file"
    /\ pc = "get"
    /\ propagate_errors = FALSE
    /\ args \in {[team_drive_id |-> c, file_id |-> "f"] : c \in Destinations}
    /\ InitCall
    /\ InitPaginated
    /\ InitUpload
    /\ InitCreateDrive
    /\ InitArchive
    /\ InitExtra

\* lines 386-388: one make_call attempt of the get; joining the parents
\* raises TypeError when the response has none
MoveFileGet ==
    /\ op = "move_file"
    /\ pc = "get"
    /\ \E st \in CallStatuses, content \in Contents, response \in MoveGetResponses :
          MakeCallStep(move_file_get_call(args["file_id"]), st, content, response, FALSE)
    /\ IF mc_out' = "return"
       THEN IF Has(retval', "parents")
            THEN /\ pc' = "update"
                 /\ parents' = retval'
                 /\ raised' = NoError
            ELSE /\ pc' = "raised"
                 /\ parents' = parents
                 /\ raised' = TypeError
       ELSE /\ pc' = AfterCall("get", "update")
            /\ parents' = parents
            /\ raised' = thrown'
    /\ UNCHANGED <<op, args, pgvars, upvars, cdvars, folder, files, dfiles, idx, sleeps,
                   envvars>>

\* lines 390-398: one make_call attempt of the update
MoveFileUpdate ==
    /\ op = "move_file"
    /\ pc = "update"
    /\ \E st \in CallStatuses, content \in Contents :
          MakeCallStep(move_file_update_call(args["team_drive_id"], args["file_id"], parents),
                       st, content, [id |-> args["file_id"]], FALSE)
    /\ pc' = AfterCall("update", "returned")
    /\ raised' = thrown'
    /\ UNCHANGED <<op, args, pgvars, upvars, cdvars, arvars, envvars>>

NextMoveFile == MoveFileGet \/ MoveFileUpdate

SpecMoveFile == InitMoveFile /\ [][NextMoveFile]_vars

----------------------------------------------------------------------------
(* download_file and download_google_document *)

FileIds == {"f1", "f2"}

MimeTypes == {"text/plain", "application/pdf"}

\* the bytes the remote serves: UTF-8 encoded text, or bytes that are not
Encodings == {"utf8", "binary"}

\* fp.getvalue().decode("utf-8")
UnicodeDecodeError == [type |-> "UnicodeDecodeError", status |-> 0, payload |-> <<>>]

decode_utf8(bytes) ==
    IF bytes[1] = "utf8"
    THEN [kind |-> "return", value |-> <<"str", bytes[2]>>, exc |-> NoError]
    ELSE [kind |-> "raise", value |-> NoValue, exc |-> UnicodeDecodeError]

\* what downloader.next_chunk() may raise: the remote answers with an error
\* status, the connection breaks or the local write fails (OSError), or the
\* transport cannot reach the host (httplib2.ServerNotFoundError)
OSError == [type |-> "OSError", status |-> 0, payload |-> <<>>]

ServerNotFoundError == [type |-> "ServerNotFoundError", status |-> 0, payload |-> <<>>]

DownloadStatuses == {403, 404, 500, 503}

ChunkFailures ==
    {HttpError(st, content) : st \in DownloadStatuses, content \in Contents}
    \cup {OSError, ServerNotFoundError}

\* lines 156-158
download_file_except(exc, file_id) ==
    IF exc.type = "HttpError"
    THEN [type |-> "Exception", status |-> 0,
          payload |-> <<"Failed to download file. Id: ", file_id>>]
    ELSE exc

\* lines 174-176
download_google_document_except(exc, file_id, mime_type) ==
    IF exc.type \in {"HttpError", "OSError"}
    THEN [type |-> "Exception", status |-> 0,
          payload |-> <<"Failed to export the file. Id: ", file_id, " MimeType: ", mime_type>>]
    ELSE exc

InitDownload ==
    /\ op \in {"download_file", "download_google_document"}
    /\ pc = "chunk"
    /\ propagate_errors = FALSE
    /\ args \in (IF op = "download_file"
                 THEN {[file_id |-> f] : f \in FileIds}
                 ELSE {[file_id |-> f, mime_type |-> m] : f \in FileIds, m \in MimeTypes})
    /\ nchunks \in 1..MaxChunks
    /\ creates = 0
    /\ sent = 0
    /\ InitCall
    /\ InitPaginated
    /\ InitCreateDrive
    /\ InitArchive
    /\ InitExtra

\* one downloader.next_chunk(): the chunk arrives and the loop goes on or
\* ends with the last chunk, or the request raises exc
DownloadChunkStep(exc) ==
    /\ calls' = Log(calls, [api |-> "next_chunk"])
    /\ orig' = exc
    /\ sent' = (IF exc = NoError THEN sent + 1 ELSE sent)
    /\ UNCHANGED <<attempt, mc_out, statuses, waits, thrown, invocations, propagate_errors>>

\* download_file, lines 152-158: one iteration of the while loop
DownloadFileChunk ==
    /\ op = "download_file"
    /\ pc = "chunk"
    /\ \E exc \in ChunkFailures \cup {NoError}, enc \in Encodings :
          /\ DownloadChunkStep(exc)
          /\ IF exc # NoError
             THEN /\ pc' = "raised"
                  /\ raised' = download_file_except(exc, args["file_id"])
                  /\ retval' = retval
             ELSE IF sent + 1 = nchunks
             THEN /\ pc' = "returned"
                  /\ raised' = NoError
                  /\ retval' = <<"fp", <<enc, "content">> >>
             ELSE /\ pc' = "chunk"
                  /\ raised' = NoError
                  /\ retval' = retval
    /\ UNCHANGED <<op, args, pgvars, creates, nchunks, cdvars, arvars, envvars>>

\* download_google_document, lines 170-176: one iteration of the while loop
\* and, after the last chunk, the decoding of the buffer
DownloadGoogleDocumentChunk ==
    /\ op = "download_google_document"
    /\ pc = "chunk"
    /\ \E exc \in ChunkFailures \cup {NoError}, enc \in Encodings :
          /\ DownloadChunkStep(exc)
          /\ IF exc # NoError
             THEN /\ pc' = "raised"
                  /\ raised' = download_google_document_except(exc, args["file_id"],
                                                               args["mime_type"])
                  /\ retval' = retval
             ELSE IF sent + 1 = nchunks
             THEN LET d == decode_utf8(<<enc, "content">>)
                  IN  /\ pc' = (IF d.kind = "return" THEN "returned" ELSE "raised")
                      /\ raised' = download_google_document_except(d.exc, args["file_id"],
                                                                   args["mime_type"])
                      /\ retval' = d.value
             ELSE /\ pc' = "chunk"
                  /\ raised' = NoError
                  /\ retval' = retval
    /\ UNCHANGED <<op, args, pgvars, creates, nchunks, cdvars, arvars, envvars>>

NextDownload == DownloadFileChunk \/ DownloadGoogleDocumentChunk

SpecDownload == InitDownload /\ [][NextDownload]_vars

----------------------------------------------------------------------------
(* archive_team_drive against a source drive whose files the remote tracks *)

\* how many non-folder files the source drive holds at the start
DriveSizes == {0, 2, 101, 301}

\* the continuation token the remote hands out with page k
PageTokens == <<"t1", "t2", "t3">>

TokenPage(t) == 1 + CHOOSE k \in 1..Len(PageTokens) : PageTokens[k] = t

\* files.list without pageSize: page k of the files in d, 100 to a page,
\* with a token while more files follow
DrivePage(d, k) ==
    LET lo == 100 * (k - 1) + 1
        hi == Min(100 * k, Len(d))
    IN  ("files" :> SubSeq(d, lo, hi))
        @@ (IF Len(d) > 100 * k THEN ("nextPageToken" :> PageTokens[k]) ELSE EmptyDict)

\* the page the next call of the wrapped function asks for (lines 58-66)
PageRequested ==
    IF pg_out = "more" /\ Has(kwargs, "pageToken") THEN TokenPage(kwargs["pageToken"]) ELSE 1

InitArchiveDrive ==
    /\ op = "archive_team_drive"
    /\ pc = "create_folder"
    /\ propagate_errors = FALSE
    /\ args = archive_list_args
    /\ source \in {Records(1, n) : n \in DriveSizes}
    /\ drive = source
    /\ moved = <<>>
    /\ permissions = <<>>
    /\ total = 0
    /\ history = FALSE
    /\ InitCall
    /\ InitPaginated
    /\ InitUpload
    /\ InitCreateDrive
    /\ InitArchive

\* lines 266-270: one make_call attempt of list_files on the source drive
ArchiveListDrive ==
    /\ op = "archive_team_drive"
    /\ pc = "list"
    /\ \E st \in CallStatuses, content \in Contents :
          PaginatedStep(archive_list_args, st, content, DrivePage(drive, PageRequested))
    /\ pc' = AfterListing("list", IF results' = <<>> THEN "dlist" ELSE "perm")
    /\ files' = (IF pg_out' = "return" THEN results' ELSE files)
    /\ idx' = (IF pg_out' = "return" THEN 1 ELSE idx)
    /\ raised' = thrown'
    /\ UNCHANGED <<op, args, upvars, cdvars, folder, dfiles, parents, sleeps, envvars>>

\* delete_team_drive, lines 250-253: one make_call attempt of list_files,
\* then the settling sleep
DeleteTeamDriveListDrive ==
    /\ op = "archive_team_drive"
    /\ pc = "dlist"
    /\ \E st \in CallStatuses, content \in Contents :
          PaginatedStep(delete_list_args, st, content, DrivePage(drive, PageRequested))
    /\ pc' = AfterListing("dlist", IF results' = <<>> THEN "ddrive" ELSE "dfile")
    /\ dfiles' = (IF pg_out' = "return" THEN results' ELSE dfiles)
    /\ idx' = (IF pg_out' = "return" THEN 1 ELSE idx)
    /\ sleeps' = (IF pg_out' = "return" THEN Append(sleeps, SettleDelay) ELSE sleeps)
    /\ raised' = thrown'
    /\ UNCHANGED <<op, args, upvars, cdvars, folder, files, parents, envvars>>

NextArchiveDrive ==
    \/ ArchiveCreateFolder
    \/ ArchiveListDrive
    \/ ArchiveAddDomainPermission
    \/ ArchiveMoveFileGet
    \/ ArchiveMoveFileUpdate
    \/ DeleteTeamDriveListDrive
    \/ DeleteTeamDriveFile
    \/ DeleteTeamDriveDrive

SpecArchiveDrive == InitArchiveDrive /\ [][NextArchiveDrive]_vars

----------------------------------------------------------------------------
(* A paginated listing that runs for as long as the remote hands out tokens *)

\* what the caller passes: a small limit, with or without a fields mask
LiveListArgs ==
    {f @@ l : f \in Opt("fields", {<<"id">>}), l \in {("limit" :> 0), ("limit" :> 2)}}

\* the logs keep only their last entry, so that a listing of any length is
\* a run over finitely many states
InitListingLive ==
    /\ op = "list_team_drives"
    /\ pc = "list"
    /\ args \in LiveListArgs
    /\ propagate_errors = FALSE
    /\ permissions = <<>>
    /\ source = <<>>
    /\ drive = <<>>
    /\ moved = <<>>
    /\ total = 0
    /\ history = FALSE
    /\ InitCall
    /\ InitPaginated
    /\ InitUpload
    /\ InitCreateDrive
    /\ InitArchive

\* the interpreter goes on executing the loop of lines 49-69 while it has
\* not left it: the single thread is never suspended for good
livevars == <<pc, kwargs, results, attempt, statuses, mc_out, pg_out>>

SpecListingLive ==
    InitListingLive /\ [][NextListing]_vars /\ WF_livevars(ListTeamDrives)

----------------------------------------------------------------------------
(* The caller invokes delete_team_drive *)

\* line 250: with empty the drive's files are deleted first
InitDeleteTeamDrive ==
    /\ op = "delete_team_drive"
    /\ args \in {[empty |-> e] : e \in BOOLEAN}
    /\ pc = (IF args["empty"] THEN "dlist" ELSE "ddrive")
    /\ propagate_errors = FALSE
    /\ InitCall
    /\ InitPaginated
    /\ InitUpload
    /\ InitCreateDrive
    /\ InitArchive
    /\ InitExtra

NextDeleteTeamDrive ==
    \/ DeleteTeamDriveList
    \/ DeleteTeamDriveFile
    \/ DeleteTeamDriveDrive

SpecDeleteTeamDrive == InitDeleteTeamDrive /\ [][NextDeleteTeamDrive]_vars

----------------------------------------------------------------------------
(* The caller invokes list_files; every execution of the remote call counts *)

ListFilesPageSizes == {0, 1}

ListFilesTokens == {"", "t1"}

ListFilesArgs ==
    {[api |-> "files.list", team_drive_id |-> "source"] @@ l : l \in Opt("limit", {0})}

InitListFiles ==
    /\ op = "list_files"
    /\ pc = "list"
    /\ args \in ListFilesArgs
    /\ propagate_errors = FALSE
    /\ InitCall
    /\ InitPaginated
    /\ InitUpload
    /\ InitCreateDrive
    /\ InitArchive
    /\ InitExtra

\* lines 279-291 under the decorator: one make_call attempt for one page
ListFiles ==
    /\ op = "list_files"
    /\ pc = "list"
    /\ CanList(MaxPages)
    /\ \E st \in ListStatuses, content \in {Encode("forbidden")},
          response \in ListResponses(NextPage, ListFilesPageSizes, ListFilesTokens) :
          PaginatedStep(args, st, content, response)
    /\ total' = total + 1
    /\ pc' = AfterListing("list", "returned")
    /\ raised' = thrown'
    /\ UNCHANGED <<op, args, upvars, cdvars, arvars, permissions, source, drive, moved,
                   history>>

NextListFiles == ListFiles

SpecListFiles == InitListFiles /\ [][NextListFiles]_vars

----------------------------------------------------------------------------
(* Claims about make_call *)

AllIn(s, S) == \A i \in 1..Len(s) : s[i] \in S

\* C1: while every attempt reports a transient status, one make_call makes
\* exactly 5 remote invocations, sleeps between 2 and 5 time units between
\* consecutive attempts, then fails; it never returns a result.
C1_RetryBound ==
    (op = "make_call" /\ AllIn(statuses, {300, 429, 500, 502, 503, 504})) =>
        /\ pc # "returned"
        /\ retval = NoValue
        /\ Len(statuses) <= 5
        /\ (pc = "raised") <=> (Len(statuses) = 5)
        /\ pc = "raised" => raised.type = "RetryError"
        /\ Len(waits) = (IF pc = "raised" THEN 4 ELSE Len(statuses))
        /\ \A i \in 1..Len(waits) : waits[i] >= 2 /\ waits[i] <= 5

C1_Witness ==
    /\ op = "make_call"
    /\ pc = "raised"
    /\ Len(statuses) = 5
    /\ AllIn(statuses, {300, 429, 500, 502, 503, 504})
    /\ Len(waits) = 4

\* C2: a status outside the retry list (and not a success) on the first
\* attempt ends make_call in a failure after exactly one remote invocation,
\* for both values of propagate_errors.
C2_NoRetryOnPermanent ==
    (op = "make_call" /\ Len(statuses) >= 1
        /\ statuses[1] \notin {200, 300, 429, 500, 502, 503, 504}) =>
        /\ Len(statuses) = 1
        /\ pc = "raised"
        /\ raised.type \in {"TypeError", "Exception"}
        /\ retval = NoValue
        /\ waits = <<>>

C2_Witness ==
    /\ op = "make_call"
    /\ pc = "raised"
    /\ statuses = <<403>>
    /\ propagate_errors

\* C3: on a non-retryable failure make_call surfaces the original HttpError
\* unchanged when propagate_errors is set, and otherwise a generic Exception
\* that carries the decoded error body.
C3_ErrorSurfacing ==
    (op = "make_call" /\ pc = "raised" /\ raised.type # "RetryError") =>
        IF propagate_errors
        THEN raised = orig
        ELSE raised.type = "Exception" /\ Encode(raised.payload[2]) = orig.payload

----------------------------------------------------------------------------
(* Claims about the paginated decorator *)

RECURSIVE ConcatFiles(_)
ConcatFiles(pgs) ==
    IF pgs = <<>> THEN <<>> ELSE pgs[1]["files"] \o ConcatFiles(Tail(pgs))

RECURSIVE MaxPageLen(_)
MaxPageLen(pgs) ==
    IF pgs = <<>> THEN 0 ELSE Max(Len(pgs[1]["files"]), MaxPageLen(Tail(pgs)))

CountOf(s, x) == Cardinality({i \in 1..Len(s) : s[i] = x})

HasToken(page) == Has(page, "nextPageToken") /\ page["nextPageToken"] # ""

\* C4: the listing is the concatenation of the fetched pages in request
\* order; the first request carries only the caller's own pageToken (none
\* from the wrapper), every later one the token of the response before it;
\* 3 pages of 100 with tokens on pages 1 and 2 only and limit 250 give all
\* 300 records with 3 page requests.
C4_Concatenation ==
    op = "list_team_drives" =>
        /\ results = ConcatFiles(pages)
        /\ Len(requests) >= 1 =>
              /\ Has(requests[1].kwargs, "pageToken") <=> Has(args, "pageToken")
              /\ Has(args, "pageToken") =>
                    requests[1].kwargs["pageToken"] = args["pageToken"]
        /\ \A k \in 2..Len(requests) :
              /\ Has(pages[k - 1], "nextPageToken")
              /\ Has(requests[k].kwargs, "pageToken")
              /\ requests[k].kwargs["pageToken"] = pages[k - 1]["nextPageToken"]
        /\ (/\ pc = "returned"
            /\ limit = 250
            /\ Len(pages) >= 1
            /\ \A k \in 1..Min(2, Len(pages)) :
                  Len(pages[k]["files"]) = 100 /\ HasToken(pages[k])) =>
              /\ Len(pages) >= 3
              /\ (Len(pages[3]["files"]) = 100 /\ ~HasToken(pages[3])) =>
                    /\ Len(requests) = 3
                    /\ results = [i \in 1..300 |-> i]

C4_Witness ==
    /\ op = "list_team_drives"
    /\ pc = "returned"
    /\ limit = 250
    /\ Len(requests) = 3
    /\ Len(results) = 300
    /\ HasToken(pages[1])
    /\ HasToken(pages[2])
    /\ ~HasToken(pages[3])

\* C5 as stated: no page is requested after the accumulated count exceeded
\* limit, and for every limit the returned length is at most limit plus the
\* size of the largest page.
C5_LimitBoundAnyLimit ==
    op = "list_team_drives" =>
        /\ \A k \in 2..Len(requests) : requests[k].have <= limit
        /\ pc = "returned" => Len(results) <= limit + MaxPageLen(pages)

\* C5 amended: no page is requested after the accumulated count exceeded
\* limit, and for every limit >= 0 the returned length is at most limit
\* plus the size of the largest page.
C5_LimitBound ==
    op = "list_team_drives" =>
        /\ \A k \in 2..Len(requests) : requests[k].have <= limit
        /\ (pc = "returned" /\ limit >= 0) =>
              Len(results) <= limit + MaxPageLen(pages)

C5_Witness ==
    /\ op = "list_team_drives"
    /\ pc = "returned"
    /\ limit >= 0
    /\ Len(pages) >= 2
    /\ HasToken(pages[Len(pages)])
    /\ Len(results) > limit

\* C6: if the caller's fields mask is non-empty and lacks nextPageToken,
\* every call of the wrapped function gets a mask made of the caller's mask
\* followed by the field nextPageToken, which occurs in it exactly once.
C6_FieldInjection ==
    (/\ op = "list_team_drives"
     /\ Has(args, "fields")
     /\ args["fields"] # <<>>
     /\ CountOf(args["fields"], "nextPageToken") = 0) =>
        \A k \in 1..Len(requests) :
            /\ Has(requests[k].kwargs, "fields")
            /\ LET f == requests[k].kwargs["fields"]
                   m == args["fields"]
               IN  /\ CountOf(f, "nextPageToken") = 1
                   /\ Len(f) = Len(m) + 2
                   /\ SubSeq(f, 1, Len(m)) = m
                   /\ f[Len(m) + 1] = ","
                   /\ f[Len(m) + 2] = "nextPageToken"

C6_Witness ==
    /\ op = "list_team_drives"
    /\ Has(args, "fields")
    /\ args["fields"] = <<"files(", "id", ",", "name", ")">>
    /\ Len(requests) = 3
    /\ pc = "returned"

----------------------------------------------------------------------------
(* Claims about the chunked upload *)

\* C7: in upload_file a 404 on a chunk send abandons the session and starts
\* the upload again with a new create request; the upload does not end in a
\* failure because of the 404.
C7_RestartOn404 ==
    (op = "upload_file" /\ orig.type = "HttpError" /\ orig.status = 404) =>
        /\ pc = "create"
        /\ raised = NoError

\* C8: no function returns normally from a remote call that failed: after a
\* failed remote invocation it retries or raises.
C8_NeverSwallowed ==
    (orig.type = "HttpError" /\ mc_out # "retry") => pc = "raised"

----------------------------------------------------------------------------
(* Claims about create_team_drive *)

\* C9: a 409 on the create call of create_team_drive leads to another
\* create call with a newly generated requestId (until the 5 attempts of the
\* function are used up), and no member is granted before a create call
\* succeeded.
C9_RetryOn409 ==
    op = "create_team_drive" =>
        /\ (orig.type = "HttpError" /\ orig.status = 409) =>
              \/ pc = "create" /\ raised = NoError
              \/ ctd_attempt >= 5
        /\ \A i \in 1..Len(calls) :
              calls[i].api = "permissions.create" => Len(drive_data) = 1

----------------------------------------------------------------------------
(* Claims about archive_team_drive *)

CallsOf(api) == {i \in 1..Len(calls) : calls[i].api = api}

DoneBefore(j, api, id) ==
    \E i \in 1..(j - 1) : calls[i].api = api /\ calls[i].fileId = id

\* C10: in archive_team_drive the folder is created by exactly one
\* create_file call that precedes every file move; every file is moved after
\* its own domain permission was granted; the delete of the source drive is
\* issued only after every listed file got its permission and its move; if
\* an earlier step raises, the drive delete is never issued.
C10_ArchiveOrder ==
    op = "archive_team_drive" =>
        /\ Cardinality(CallsOf("files.create")) <= 1
        /\ \A j \in CallsOf("files.update") :
              /\ \E i \in CallsOf("files.create") : i < j
              /\ Len(folder) = 1
              /\ calls[j].addParents = folder[1]["id"]
              /\ DoneBefore(j, "permissions.create", calls[j].fileId)
        /\ \A j \in CallsOf("teamdrives.delete") :
              \A k \in 1..Len(files) :
                  /\ DoneBefore(j, "permissions.create", files[k])
                  /\ DoneBefore(j, "files.update", files[k])
        /\ (pc = "raised" /\ calls[Len(calls)].api # "teamdrives.delete") =>
              CallsOf("teamdrives.delete") = {}

C10_Witness ==
    /\ op = "archive_team_drive"
    /\ pc = "returned"
    /\ Len(files) = 2
    /\ Cardinality(CallsOf("files.update")) = 2
    /\ CallsOf("teamdrives.delete") # {}

----------------------------------------------------------------------------
(* Claims about remove_permission *)

Matching(perms, email) ==
    {i \in 1..Len(perms) : Has(perms[i], "emailAddress") /\ perms[i]["emailAddress"] = email}

\* C11: remove_permission issues at most one permission delete call, for the
\* first list entry whose email address equals the target email, and no
\* delete call when no entry of the list matches; it then returns normally,
\* so it ends in a failure only when one of its remote calls failed.
C11_AtMostOneDelete ==
    op = "remove_permission" =>
        LET dels == CallsOf("permissions.delete")
            m    == Matching(permissions, args["email"])
        IN  /\ Cardinality(dels) <= 1
            /\ \A j \in dels :
                  /\ m # {}
                  /\ calls[j].permissionId = permissions[CHOOSE i \in m : \A k \in m : i <= k]["id"]
            /\ pc = "raised" => thrown # NoError

----------------------------------------------------------------------------
(* Claims about move_file *)

\* C12: move_file issues exactly two remote calls in order, a get of the
\* file's parents and then one update; for every parent list P the get
\* returned and every destination C the update carries addParents = C and
\* removeParents = the members of P, comma separated in the order returned;
\* no update is issued unless the get returned.
C12_MoveFile ==
    op = "move_file" =>
        /\ Len(calls) <= 2
        /\ Len(calls) >= 1 =>
              /\ calls[1].api = "files.get"
              /\ calls[1].fileId = args["file_id"]
              /\ calls[1].fields = <<"parents">>
        /\ Len(calls) = 2 =>
              /\ Has(parents, "parents")
              /\ calls[2].api = "files.update"
              /\ calls[2].fileId = args["file_id"]
              /\ calls[2].addParents = args["team_drive_id"]
              /\ IF parents["parents"] = <<>>
                 THEN calls[2].removeParents = <<>>
                 ELSE Split(calls[2].removeParents) = parents["parents"]
        /\ ~Has(parents, "parents") => Len(calls) <= 1
        /\ pc = "returned" => Len(calls) = 2

C12_Witness ==
    /\ op = "move_file"
    /\ pc = "returned"
    /\ args["team_drive_id"] = "C"
    /\ parents = ("parents" :> << <<"A">>, <<"B">> >>)
    /\ calls[2].addParents = "C"
    /\ calls[2].removeParents = <<"A", ",", "B">>

----------------------------------------------------------------------------
(* Claims about the downloads *)

\* C13: download_file and download_google_document never retry: after the
\* first chunk request that fails no further chunk request is made, and the
\* call ends in a final failure that names the resource identifier (and the
\* target format for an export), whatever the failure of the transfer was; a
\* successful transfer returns only after the chunk marked terminal.
C13_DownloadNoRetry ==
    op \in {"download_file", "download_google_document"} =>
        /\ Len(calls) = sent + (IF orig.type # "NoError" THEN 1 ELSE 0)
        /\ orig.type # "NoError" =>
              /\ pc = "raised"
              /\ raised.type = "Exception"
              /\ raised.payload[2] = args["file_id"]
              /\ op = "download_google_document" => raised.payload[4] = args["mime_type"]
        /\ pc = "returned" => sent = nchunks /\ orig.type = "NoError"

\* C14: archive_team_drive loses no file: however many non-folder files the
\* source drive holds (more than the default limit of 250 included), every
\* one of them has been relocated when the delete of the source drive is
\* issued, and no file delete is issued for a non-folder file that was not
\* relocated.
C14_NoFileLost ==
    (op = "archive_team_drive" /\ calls # <<>>) =>
        LET last == calls[Len(calls)]
        IN  /\ last.api = "teamdrives.delete" =>
                  \A i \in 1..Len(source) : InSeq(moved, source[i])
            /\ (last.api = "files.delete" /\ InSeq(source, last.fileId)) =>
                  InSeq(moved, last.fileId)

----------------------------------------------------------------------------
(* Claims about the retry state of make_call *)

\* C15: make_call retries exactly on the transient statuses and stops at
\* the first success: with transient statuses on attempts 1..k-1 and a
\* success on attempt k (k <= 5) it makes exactly k invocations, each with
\* the same operation name and the same keyword arguments, and returns the
\* result of attempt k.
C15_RetryUntilSuccess ==
    op = "make_call" =>
        LET k == Len(invocations)
        IN  /\ k = Len(statuses)
            /\ \A i \in 1..k :
                  /\ invocations[i].call = [api |-> args["func"], kwargs |-> args["kwargs"]]
                  /\ invocations[i].status = statuses[i]
            /\ \A i \in 1..(k - 1) : statuses[i] \in TransientStatuses
            /\ (AllIn(statuses, TransientStatuses) /\ k < StopAfterAttempt) => pc = "call"
            /\ (k >= 1 /\ statuses[k] \in SuccessStatuses) =>
                  /\ k <= StopAfterAttempt
                  /\ attempt = k
                  /\ pc = "returned"
                  /\ retval = invocations[k].result[1]
            /\ pc = "returned" => statuses[k] \in SuccessStatuses

C15_Witness ==
    /\ op = "make_call"
    /\ pc = "returned"
    /\ Len(invocations) = 5
    /\ AllIn(SubSeq(statuses, 1, 4), TransientStatuses)
    /\ statuses[1] # statuses[2]
    /\ statuses[5] = 200
    /\ args["func"] = "get"
    /\ invocations[3].call = [api |-> "get", kwargs |-> [fileId |-> "f1"]]
    /\ retval = [id |-> "r2"]

----------------------------------------------------------------------------
(* Claims about the termination of a listing *)

LastPage == pages[Len(pages)]

\* a listing returns only at a response without token or with the count
\* above limit, and goes on after a response only when neither is the case
StopsOnlyWhenDone ==
    op = "list_team_drives" =>
        /\ pc = "returned" => (~HasToken(LastPage) \/ Len(results) > limit)
        /\ (pc = "list" /\ mc_out = "return") =>
              (HasToken(LastPage) /\ Len(results) <= limit)

\* the last response was an empty page with a continuation token
EmptyTokenPage ==
    /\ pc = "list"
    /\ mc_out = "return"
    /\ LastPage["files"] = <<>>
    /\ HasToken(LastPage)

\* C16 as stated: every paginated listing call terminates, stopping at the
\* first response without continuation token or as soon as the count exceeds
\* limit and at nothing else, for every sequence of remote responses, those
\* with a token on an empty page included.
C16_Terminates == []StopsOnlyWhenDone /\ <>(pc # "list")

\* C16: a paginated listing stops at the first response without continuation
\* token or as soon as the count exceeds limit, and at nothing else but a
\* failing call; it terminates unless the remote sends empty pages carrying
\* a continuation token again and again.
C16_TerminatesUnlessEmptyPages ==
    []StopsOnlyWhenDone /\ (<>(pc # "list") \/ []<>EmptyTokenPage)

C16_Witness ==
    /\ EmptyTokenPage
    /\ Has(requests[1].kwargs, "pageToken")
    /\ results = <<>>
    /\ kwargs["pageToken"] = LastPage["nextPageToken"]

----------------------------------------------------------------------------
(* Claims about the members of a new drive *)

\* C17: when create_team_drive fails while granting members, the drive stays
\* created and the members granted are exactly a prefix of the members list
\* in order: no delete or other compensating call is made, the creation is
\* not repeated, and no member after the failing one is granted.
C17_PartialGrant ==
    op = "create_team_drive" =>
        /\ Len(granted) <= Len(members)
        /\ \A i \in 1..Len(granted) : granted[i] = members[i]
        /\ CallsOf("drives.create") \subseteq {1}
        /\ \A j \in 2..Len(calls) :
              /\ calls[j].api = "permissions.create"
              /\ j - 1 <= Len(members)
              /\ calls[j].body.emailAddress = members[j - 1]
              /\ calls[j].fileId = "drive"
        /\ (pc = "raised" /\ Len(calls) >= 2) =>
              /\ Len(granted) < Len(members)
              /\ Len(calls) = Len(granted) + 2

C17_Witness ==
    /\ op = "create_team_drive"
    /\ pc = "raised"
    /\ Len(members) = 2
    /\ granted = <<members[1]>>
    /\ Len(calls) = 3
    /\ calls[3].api = "permissions.create"

----------------------------------------------------------------------------
(* Claims about the retry of a chunk *)

\* C18: in upload_file a chunk send that fails with 500, 502, 503 or 504 is
\* sent again, with no ceiling on the number of attempts: while the remote
\* keeps answering a chunk with such a status the upload does not end in a
\* failure, and when the remote then accepts the chunk the upload goes on
\* from that chunk in the same session and returns the terminal response
\* after the last chunk.
C18_ChunkRetryUnbounded ==
    op = "upload_file" =>
        LET k == Len(statuses)
        IN  /\ (k >= 1 /\ AllIn(statuses, ChunkRetryStatuses)) =>
                  /\ pc = "chunk"
                  /\ mc_out = "retry"
                  /\ raised = NoError
                  /\ attempt = k
                  /\ Len(waits) = k
                  /\ \A i \in 1..k : waits[i] <= UploadWaitMax
                  /\ Len(calls) = sent + 1
            /\ (k >= 1 /\ AllIn(SubSeq(statuses, 1, k - 1), ChunkRetryStatuses)
                     /\ statuses[k] \in SuccessStatuses) =>
                  /\ creates = 1
                  /\ raised = NoError
                  /\ Len(calls) = sent
                  /\ IF sent = nchunks
                     THEN pc = "returned" /\ retval[3] = <<"uploaded">>
                     ELSE pc = "chunk"

C18_Witness ==
    /\ op = "upload_file"
    /\ pc = "returned"
    /\ nchunks = 2
    /\ sent = 2
    /\ Len(statuses) = 5
    /\ AllIn(SubSeq(statuses, 1, 4), ChunkRetryStatuses)
    /\ waits = <<1, 2, 4, 8>>
    /\ retval[3] = <<"uploaded">>

----------------------------------------------------------------------------
(* Claims about delete_team_drive *)

\* the list calls at the head of the call log
RECURSIVE ListCalls(_)
ListCalls(cs) ==
    IF cs # <<>> /\ cs[1].api = "files.list" THEN 1 + ListCalls(Tail(cs)) ELSE 0

\* C19: delete_team_drive with empty=True lists the drive's files, waits the
\* settling delay, issues one file delete per listed file in list order, and
\* issues the drive delete last and only after every file delete succeeded;
\* with empty=False the drive delete is its only remote call.
C19_DeleteOrder ==
    op = "delete_team_drive" =>
        LET n == ListCalls(calls)
            d == Len(calls) - n
        IN  IF args["empty"]
            THEN /\ \A j \in 1..Len(calls) :
                       calls[j].api \in {"files.list", "files.delete", "teamdrives.delete"}
                 /\ d >= 1 =>
                       /\ sleeps = <<SettleDelay>>
                       /\ d <= Len(dfiles) + 1
                       /\ \A i \in 1..d :
                             IF i <= Len(dfiles)
                             THEN calls[n + i] = delete_file_call(dfiles[i])
                             ELSE calls[n + i] = delete_team_drive_call("source")
                 /\ CallsOf("teamdrives.delete") # {} =>
                       /\ d = Len(dfiles) + 1
                       /\ idx = Len(dfiles) + 1
                 /\ pc = "returned" => CallsOf("teamdrives.delete") # {}
            ELSE /\ sleeps = <<>>
                 /\ Len(calls) <= 1
                 /\ \A j \in 1..Len(calls) : calls[j] = delete_team_drive_call("source")
                 /\ pc = "returned" => Len(calls) = 1

C19_Witness ==
    /\ op = "delete_team_drive"
    /\ args["empty"]
    /\ pc = "returned"
    /\ Len(dfiles) = 3
    /\ sleeps = <<5>>
    /\ Len(calls) = 6
    /\ calls[3].fileId = dfiles[1]
    /\ calls[5].fileId = dfiles[3]
    /\ calls[6].api = "teamdrives.delete"

----------------------------------------------------------------------------
(* Claims about the scope of the retry state *)

\* every make_call stays within its own 5 attempts, and a make_call that
\* uses them up ends the listing with no later page requested
BudgetPerCall ==
    op = "list_files" =>
        /\ attempt <= StopAfterAttempt
        /\ Len(statuses) = attempt
        /\ total <= StopAfterAttempt * Len(requests)
        /\ total >= Len(requests)
        /\ thrown.type = "RetryError" =>
              /\ pc = "raised"
              /\ attempt = StopAfterAttempt
              /\ Len(requests) = Len(pages) + 1

\* the request of a page starts a make_call at attempt 1, whatever the
\* make_call of the page before it used
FreshBudget ==
    (op = "list_files" /\ Len(requests') > Len(requests)) =>
        (attempt' = 1 /\ total' = total + 1)

\* C20: retry state is scoped to one make_call invocation: every make_call
\* starts with a fresh budget of 5 attempts; in a paginated listing every
\* page has its own budget, so a listing of N pages may make up to 5 * N
\* remote invocations, and a page that exhausts its budget ends the whole
\* listing without a later page being requested.
C20_RetryScope == []BudgetPerCall /\ [][FreshBudget]_<<attempt, total, requests>>

C20_Witness ==
    /\ op = "list_files"
    /\ pc = "returned"
    /\ Len(requests) = 3
    /\ total = 3 * StopAfterAttempt

====
